---------------------------- MODULE Spec2Model ----------------------------
(***************************************************************************)
(* Model of src/bigcity/bevy/proto/src/main.rs: the two ping-ponged        *)
(* simulation images, the role swap (ping_pong), the brush                 *)
(* (paint_on_texture) and the particle selection (switch_particle_type),   *)
(* run once per frame by the Update schedule.                              *)
(*                                                                         *)
(* The state is the program's CPU-side state: the byte vector of each      *)
(* image, the handles held by the PingPong resource, the material, the     *)
(* render-target camera and the scaled sprite, the SelectedParticle        *)
(* resource and the debug text.  The grid is modelled at a reduced size    *)
(* (GridWidth x GridHeight cells, brush radius BrushRadius, FloorRows      *)
(* rows of bedrock) with the same index arithmetic as the source.          *)
(***************************************************************************)
EXTENDS Integers, FiniteSets, Sequences, TLC

(* ------------------------------ bounds -------------------------------- *)

\* Side lengths of the modelled grid (SIMULATION_WIDTH/HEIGHT are 256).
GridWidth == 2
GridHeight == 3
\* Brush radius of the modelled grid (BRUSH_SIZE is 5).
BrushRadius == 1
\* Rows of bedrock written by setup (5 in the source).
FloorRows == 1
\* Number of frames a behaviour runs.
MaxFrames == 2
\* Number of frames in which the brush is applied.
MaxStrokes == 2

(* ----------------------------- constants ------------------------------ *)

SIMULATION_WIDTH == GridWidth
SIMULATION_HEIGHT == GridHeight
BRUSH_SIZE == BrushRadius
FLOOR_HEIGHT == FloorRows

\* resolution: (SIMULATION_WIDTH as f32 * 4.0, SIMULATION_HEIGHT as f32 * 4.0)
WindowScale == 4
WindowWidth == SIMULATION_WIDTH * WindowScale
WindowHeight == SIMULATION_HEIGHT * WindowScale

\* Bytes per pixel of the Rgba8 image: the factor 4 of the byte index.
BytesPerPixel == 4

\* enum Particle
Particle == {"Air", "Bedrock", "Sand", "Water"}

\* #[default] Air
ParticleDefault == "Air"

\* Particle::get_color_id, in tenths (0.0, 0.1, 0.5, 1.0).
get_color_id(p) ==
    CASE p = "Air" -> 0
      [] p = "Bedrock" -> 1
      [] p = "Sand" -> 5
      [] p = "Water" -> 10

\* Mutant of ColorByte: the product is rounded to nearest instead of truncated.
ColorByteRounded(p) == (get_color_id(p) * 255 + 5) \div 10

\* (p.get_color_id() * 255.0) as u8: the product truncated toward zero.
ColorByte(p) == (get_color_id(p) * 255) \div 10

\* The two image handles created by setup.
Images == {"A", "B"}

\* vec![0; (SIMULATION_WIDTH * SIMULATION_HEIGHT * 4) as usize]
DataLen == SIMULATION_WIDTH * SIMULATION_HEIGHT * BytesPerPixel

\* let i = ((y * SIMULATION_WIDTH + x) * 4) as usize;
ByteIndex(x, y) == (y * SIMULATION_WIDTH + x) * BytesPerPixel

\* Mutant of FloorIndices: the floor loop indexes column-major (x and y swapped).
FloorIndicesTransposed ==
    {ByteIndex(y, x) : x \in 0..(SIMULATION_WIDTH - 1), y \in 0..(FLOOR_HEIGHT - 1)}

\* The floor loop of setup: for x in 0..SIMULATION_WIDTH, for y in 0..5.
FloorIndices ==
    {ByteIndex(x, y) : x \in 0..(SIMULATION_WIDTH - 1), y \in 0..(FLOOR_HEIGHT - 1)}

\* image_data after the floor loop; both images start from a copy of it.
\* (the vector is kept as a sequence: byte i of the vector is element i + 1)
InitialImageData ==
    [k \in 1..DataLen |->
        IF (k - 1) \in FloorIndices THEN ColorByte("Bedrock") ELSE 0]

\* data[i]
ByteAt(d, i) == d[i + 1]

(* --------------------------- u32 arithmetic --------------------------- *)

\* 2^16: a u32 is kept as its two 16-bit halves, <<high, low>>.
Half == 65536

\* Mutant of AsU32: the cast of a negative value saturates at 0.
AsU32Saturating(v) == IF v < 0 THEN <<0, 0>> ELSE <<(v \div Half) % Half, v % Half>>

\* `v as u32` of an i32: the value modulo 2^32.
AsU32(v) == <<(v \div Half) % Half, v % Half>>

\* x < SIMULATION_WIDTH on a u32.
U32Less(u, n) == u[1] = 0 /\ u[2] < n

\* The value of a u32 known to be below 2^16.
U32Low(u) == u[2]

(* ------------------------------- state -------------------------------- *)

VARIABLES
    data,           \* Assets<Image>: handle -> image.data
    read,           \* PingPong.read
    write,          \* PingPong.write
    source_image,   \* SimulationMaterial.source_image
    cam_target,     \* target of the camera with order -1
    sprite_image,   \* image of the sprite with custom_size
    selected,       \* SelectedParticle.0
    text,           \* the debug text (its kind)
    done,           \* systems of the Update schedule that have run this frame
    frame,          \* frames completed
    panicked,       \* a system has panicked (index out of bounds)
    swaps,          \* history: ping_pong runs so far
    stroke,         \* history: the brush applied by this frame's paint
    strokes,        \* history: frames in which the brush was applied
    painted,        \* history: cells within brush distance of any stroke
    selectEvent,    \* history: a select key has been seen
    prevRoles,      \* history: <<read, write>> before the latest ping_pong
    prevData,       \* history: data before the latest ping_pong
    probe           \* the brush loops run at the source's constants

vars == <<data, read, write, source_image, cam_target, sprite_image, selected,
          text, done, frame, panicked, swaps, stroke, strokes, painted, selectEvent,
          prevRoles, prevData, probe>>

Systems == {"paint_on_texture", "switch_particle_type", "ping_pong"}

NoStroke == [kind |-> "none"]
NoRoles == <<"none", "none">>
NoProbe == [pc |-> "idle"]

Cells == (0..(SIMULATION_WIDTH - 1)) \X (0..(SIMULATION_HEIGHT - 1))

Abs(v) == IF v < 0 THEN -v ELSE v
Max(a, b) == IF a < b THEN b ELSE a

\* Chebyshev distance between a cell and a brush centre.
Chebyshev(x, y, cx, cy) == Max(Abs(x - cx), Abs(y - cy))

(* ------------------------------- setup -------------------------------- *)

Init ==
    /\ data = [h \in Images |-> InitialImageData]
    /\ read = "A"
    /\ write = "B"
    /\ source_image = "A"
    /\ cam_target = "B"
    /\ sprite_image = "B"
    /\ selected = ParticleDefault
    /\ text = "Debug Text"
    /\ done = {}
    /\ frame = 0
    /\ panicked = FALSE
    /\ swaps = 0
    /\ stroke = NoStroke
    /\ strokes = 0
    /\ painted = {}
    /\ selectEvent = FALSE
    /\ prevRoles = NoRoles
    /\ prevData = [h \in Images |-> InitialImageData]
    /\ probe = NoProbe


(* -------------------------- paint_on_texture -------------------------- *)

\* window.cursor_position(): a position inside the window, in window pixels.
CursorPositions == (0..WindowWidth) \X (0..WindowHeight)

\* texture_pos: (normalized.x * W, (1.0 - normalized.y) * H).as_uvec2(),
\* with normalized = cursor_pos / window_size; as_uvec2 truncates.
TexturePos(cursor) ==
    <<(cursor[1] * SIMULATION_WIDTH) \div WindowWidth,
      ((WindowHeight - cursor[2]) * SIMULATION_HEIGHT) \div WindowHeight>>

\* Mutant of BrushOffsets: the loops run one offset too far on each side.
BrushOffsetsTooWide == (0 - BRUSH_SIZE - 1)..(BRUSH_SIZE + 1)

\* -BRUSH_SIZE..=BRUSH_SIZE
BrushOffsets == (0 - BRUSH_SIZE)..BRUSH_SIZE

\* Mutant of InBounds: the column test is off by one (x <= SIMULATION_WIDTH).
InBoundsOffByOne(x, y) ==
    U32Less(x, SIMULATION_WIDTH + 1) /\ U32Less(y, SIMULATION_HEIGHT)

\* if x < SIMULATION_WIDTH && y < SIMULATION_HEIGHT, on the u32 values.
InBounds(x, y) == U32Less(x, SIMULATION_WIDTH) /\ U32Less(y, SIMULATION_HEIGHT)

\* The byte indices the brush loops write for texture position tp.
BrushIndices(tp) ==
    {ByteIndex(U32Low(AsU32(tp[1] + xo)), U32Low(AsU32(tp[2] + yo))) :
        <<xo, yo>> \in {o \in BrushOffsets \X BrushOffsets :
                          InBounds(AsU32(tp[1] + o[1]), AsU32(tp[2] + o[2]))}}

\* Mutant of PaintTarget: the brush is applied to the image in the read role.
PaintTargetRead == read
\* Mutant of PaintTarget: the brush is applied to the image setup put in the
\* write role, whatever the roles are now.
PaintTargetSetupWrite == "B"

\* images.get_mut(&ping_pong.write)
PaintTarget == write

\* Mutant of BrushedData: the byte is added to the cell (data[i] += ..,
\* wrapping) instead of stored.
BrushedDataAdded(old, written, byte) ==
    [k \in 1..Len(old) |->
        IF (k - 1) \in written THEN (old[k] + byte) % 256 ELSE old[k]]

\* The brush loops: data[i] = (selected_particle.0.get_color_id() * 255.0) as u8.
\* written: the indices i the loops reach; byte: the value stored at each.
BrushedData(old, written, byte) ==
    [k \in 1..Len(old) |-> IF (k - 1) \in written THEN byte ELSE old[k]]

\* data[i] panics when i is not below data.len().
BrushPanics(old, written) == \E i \in written : i >= Len(old)

\* History only: the cells within brush distance of texture position tp.
Covered(tp) == {c \in Cells : Chebyshev(c[1], c[2], tp[1], tp[2]) <= BRUSH_SIZE}

PaintRuns == ~panicked /\ frame < MaxFrames /\ "paint_on_texture" \notin done

\* let Ok(window) = q_window.single() else { return };
PaintNoWindow ==
    /\ PaintRuns
    /\ done' = done \cup {"paint_on_texture"}
    /\ UNCHANGED <<probe, data, read, write, source_image, cam_target, sprite_image,
                   selected, text, frame, panicked, swaps, stroke, strokes, painted,
                   selectEvent, prevRoles, prevData>>

\* if !buttons.pressed(MouseButton::Left) { text.0 = ""; return; }
PaintNotPressed ==
    /\ PaintRuns
    /\ text' = ""
    /\ done' = done \cup {"paint_on_texture"}
    /\ UNCHANGED <<probe, data, read, write, source_image, cam_target, sprite_image,
                   selected, frame, panicked, swaps, stroke, strokes, painted,
                   selectEvent, prevRoles, prevData>>

\* window.cursor_position() is None: text.0 = "Cursor outside window".
PaintCursorOutside ==
    /\ PaintRuns
    /\ text' = "Cursor outside window"
    /\ done' = done \cup {"paint_on_texture"}
    /\ UNCHANGED <<probe, data, read, write, source_image, cam_target, sprite_image,
                   selected, frame, panicked, swaps, stroke, strokes, painted,
                   selectEvent, prevRoles, prevData>>

\* The button is held and the cursor is inside the window: the brush is applied.
\* text.0 = format!("Cursor: ..") is kept as the kind "Cursor"; a panic ends
\* the program, so the bytes written before it are not told apart.
PaintBrush ==
    /\ PaintRuns
    /\ strokes < MaxStrokes
    /\ strokes' = strokes + 1
    /\ \E cursor \in CursorPositions :
        \E tp \in {TexturePos(cursor)} :
          \E written \in {BrushIndices(tp)} :
            /\ text' = "Cursor"
            /\ data' = [data EXCEPT
                         ![PaintTarget] = BrushedData(@, written, ColorByte(selected))]
            /\ panicked' = BrushPanics(data[PaintTarget], written)
            /\ stroke' = [kind |-> "brush", cx |-> tp[1], cy |-> tp[2],
                          particle |-> selected, image |-> PaintTarget]
            /\ painted' = painted \cup Covered(tp)
    /\ done' = done \cup {"paint_on_texture"}
    /\ UNCHANGED <<probe, read, write, source_image, cam_target, sprite_image,
                   selected, frame, swaps, selectEvent, prevRoles, prevData>>

paint_on_texture ==
    PaintNoWindow \/ PaintNotPressed \/ PaintCursorOutside \/ PaintBrush

(* ---------------- the brush loops at the source's constants ----------- *)

\* const SIMULATION_WIDTH: u32 = 256; const SIMULATION_HEIGHT: u32 = 256;
\* const BRUSH_SIZE: i32 = 5;
SourceWidth == 256
SourceHeight == 256
SourceBrushSize == 5

\* image_data = vec![0; (SIMULATION_WIDTH * SIMULATION_HEIGHT * 4) as usize]
SourceDataLen == SourceWidth * SourceHeight * BytesPerPixel

\* texture_pos: each coordinate is normalized * 256 truncated, with normalized
\* in 0.0..=1.0 for a cursor inside the window.
SourceTexturePositions == (0..SourceWidth) \X (0..SourceHeight)

\* y_offset and x_offset in -BRUSH_SIZE..=BRUSH_SIZE
SourceOffsets ==
    ((0 - SourceBrushSize)..SourceBrushSize) \X ((0 - SourceBrushSize)..SourceBrushSize)

\* if x < SIMULATION_WIDTH && y < SIMULATION_HEIGHT, on the u32 values.
SourceInBounds(x, y) == U32Less(x, SourceWidth) /\ U32Less(y, SourceHeight)

\* (y * SIMULATION_WIDTH + x) * 4 as a number; evaluated under the bounds test
\* only, where both coordinates are below 2^16.
SourceIndexValue(x, y) == (U32Low(y) * SourceWidth + U32Low(x)) * BytesPerPixel

\* The u32 arithmetic of the index overflows when the number needs more than
\* 32 bits.
SourceIndexOverflows(x, y) == SourceIndexValue(x, y) \div Half >= Half

\* ((y * SIMULATION_WIDTH + x) * 4) as usize: the value modulo 2^32 (usize is
\* at least 32 bits wide), as a number below 2^31 when nothing overflows.
SourceByteIndex(x, y) ==
    ((SourceIndexValue(x, y) \div Half) % Half) * Half + (SourceIndexValue(x, y) % Half)

\* The two brush loops for one texture position: the offsets the bounds test
\* rejects, the indices data[i] is written at, and whether any step panics
\* (arithmetic overflow, or an index not below data.len()).
ProbeBrush ==
    /\ probe.pc = "centre"
    /\ \E cx \in {probe.cx} : \E cy \in {probe.cy} :
        \E accepted \in {{o \in SourceOffsets :
                            SourceInBounds(AsU32(cx + o[1]), AsU32(cy + o[2]))}} :
        \E written \in {{SourceByteIndex(AsU32(cx + o[1]), AsU32(cy + o[2])) :
                            o \in accepted}} :
          probe' = [pc |-> "looped", cx |-> cx, cy |-> cy,
                    rejected |-> SourceOffsets \ accepted,
                    written |-> written,
                    panics |->
                      \/ \E o \in accepted :
                            SourceIndexOverflows(AsU32(cx + o[1]), AsU32(cy + o[2]))
                      \/ \E i \in written : i >= SourceDataLen]
    /\ UNCHANGED <<data, read, write, source_image, cam_target, sprite_image,
                   selected, text, done, frame, panicked, swaps, stroke, strokes,
                   painted, selectEvent, prevRoles, prevData>>

(* ------------------------ switch_particle_type ------------------------ *)

Keys == {"Digit1", "Digit2", "Digit3"}

\* Mutant of SwitchedParticle: the three tests in the opposite order.
SwitchedParticleReversed(keys, cur) ==
    LET s3 == IF "Digit3" \in keys THEN "Bedrock" ELSE cur
        s2 == IF "Digit2" \in keys THEN "Water" ELSE s3
    IN  IF "Digit1" \in keys THEN "Sand" ELSE s2

\* The three just_pressed tests, in source order.
SwitchedParticle(keys, cur) ==
    LET s1 == IF "Digit1" \in keys THEN "Sand" ELSE cur
        s2 == IF "Digit2" \in keys THEN "Water" ELSE s1
    IN  IF "Digit3" \in keys THEN "Bedrock" ELSE s2

\* Mutant of switch_particle_type: a select key also resets both images to
\* the setup data.
SwitchClearsImages ==
    /\ ~panicked
    /\ frame < MaxFrames
    /\ "switch_particle_type" \notin done
    /\ \E keys \in SUBSET Keys :
          /\ selected' = SwitchedParticle(keys, selected)
          /\ selectEvent' = (selectEvent \/ keys # {})
          /\ data' = IF keys # {} THEN [h \in Images |-> InitialImageData] ELSE data
    /\ done' = done \cup {"switch_particle_type"}
    /\ UNCHANGED <<probe, read, write, source_image, cam_target, sprite_image,
                   text, frame, panicked, swaps, stroke, strokes, painted, prevRoles,
                   prevData>>

switch_particle_type ==
    /\ ~panicked
    /\ frame < MaxFrames
    /\ "switch_particle_type" \notin done
    /\ \E keys \in SUBSET Keys :
          /\ selected' = SwitchedParticle(keys, selected)
          /\ selectEvent' = (selectEvent \/ keys # {})
    /\ done' = done \cup {"switch_particle_type"}
    /\ UNCHANGED <<probe, data, read, write, source_image, cam_target, sprite_image,
                   text, frame, panicked, swaps, stroke, strokes, painted, prevRoles,
                   prevData>>

(* ------------------------------ ping_pong ----------------------------- *)

\* Mutant of PingPongReady: ping_pong is not ordered after paint_on_texture.
PingPongUnordered == TRUE

\* ping_pong.after(paint_on_texture)
PingPongReady == "paint_on_texture" \in done

\* Mutant of SwappedRead: the read handle is never replaced.
SwappedReadStuck == read
\* Mutant of SwappedWrite: the swap without the temporary.
SwappedWriteNoTemp == write

\* let temp = ping_pong.read.clone();
SwapTemp == read
\* ping_pong.read = ping_pong.write.clone();
SwappedRead == write
\* ping_pong.write = temp;
SwappedWrite == SwapTemp

\* Mutant of NewSpriteImage: the sprite loop is missing, the sprite keeps its
\* image.
SpriteNotRetargeted == sprite_image

\* material.1.source_image = ping_pong.read.clone(), for every material.
NewSourceImage == read'
\* camera.target = RenderTarget::Image(ping_pong.write.clone().into()), for the
\* camera of order -1.
NewCameraTarget == write'
\* sprite.image = ping_pong.write.clone(), for the sprite with a custom size.
NewSpriteImage == write'

ping_pong ==
    /\ ~panicked
    /\ frame < MaxFrames
    /\ "ping_pong" \notin done
    /\ PingPongReady
    /\ read' = SwappedRead
    /\ write' = SwappedWrite
    /\ source_image' = NewSourceImage
    /\ cam_target' = NewCameraTarget
    /\ sprite_image' = NewSpriteImage
    /\ swaps' = swaps + 1
    /\ prevRoles' = <<read, write>>
    /\ prevData' = data
    /\ done' = done \cup {"ping_pong"}
    /\ UNCHANGED <<probe, data, selected, text, frame, panicked, stroke, strokes, painted,
                   selectEvent>>

(* ------------------------- the Update schedule ------------------------ *)

\* Mutant of FrameComplete: a frame may end without ping_pong having run.
FrameCompleteWithoutTick ==
    {"paint_on_texture", "switch_particle_type"} \subseteq done

\* One run of the Update schedule has run each of its three systems.
FrameComplete == done = Systems

EndFrame ==
    /\ ~panicked
    /\ FrameComplete
    /\ done' = {}
    /\ frame' = frame + 1
    /\ stroke' = NoStroke
    /\ UNCHANGED <<probe, data, read, write, source_image, cam_target, sprite_image,
                   selected, text, panicked, swaps, strokes, painted,
                   selectEvent, prevRoles, prevData>>

Next == paint_on_texture \/ switch_particle_type \/ ping_pong \/ EndFrame

Spec == Init /\ [][Next]_vars

\* The brush loops alone, from every texture position a cursor inside the
\* window gives, on the images setup leaves.
BrushInit ==
    /\ data = [h \in Images |-> InitialImageData]
    /\ read = "A"
    /\ write = "B"
    /\ source_image = "A"
    /\ cam_target = "B"
    /\ sprite_image = "B"
    /\ selected = ParticleDefault
    /\ text = "Debug Text"
    /\ done = {}
    /\ frame = 0
    /\ panicked = FALSE
    /\ swaps = 0
    /\ stroke = NoStroke
    /\ strokes = 0
    /\ painted = {}
    /\ selectEvent = FALSE
    /\ prevRoles = NoRoles
    /\ prevData = [h \in Images |-> InitialImageData]
    /\ \E tp \in SourceTexturePositions :
          probe = [pc |-> "centre", cx |-> tp[1], cy |-> tp[2]]

BrushNext == ProbeBrush

BrushSpec == BrushInit /\ [][BrushNext]_vars

(* ----------------------------- vocabulary ----------------------------- *)

\* The step taken is this frame's run of the named system.
PaintStep == "paint_on_texture" \notin done /\ "paint_on_texture" \in done'
PingPongStep == "ping_pong" \notin done /\ "ping_pong" \in done'

\* The first byte of cell c of image data d.
CellByte(d, c) == ByteAt(d, ByteIndex(c[1], c[2]))

\* The byte indices that hold the first byte of a cell within brush distance
\* of centre (cx, cy).
SquareIndices(cx, cy) ==
    {ByteIndex(c[1], c[2]) :
        c \in {k \in Cells : Chebyshev(k[1], k[2], cx, cy) <= BRUSH_SIZE}}

\* Cells that setup made bedrock.
FloorCells == {c \in Cells : CellByte(InitialImageData, c) = ColorByte("Bedrock")}

\* Number of cells of image data d that are not Air.
NonAirCount(d) == Cardinality({c \in Cells : CellByte(d, c) # ColorByte("Air")})

(* ------------------------------- claims ------------------------------- *)

\* C1: a paint with centre (cx, cy) sets exactly the in-grid cells within
\* Chebyshev distance BRUSH_SIZE of the centre to the selected particle's
\* byte in the painted image, whatever they held; every other byte of that
\* image and the whole other image keep their values.
C1_PaintExactSquare ==
    [][(PaintStep /\ stroke'.kind = "brush") =>
         \A img \in {stroke'.image}, sq \in {SquareIndices(stroke'.cx, stroke'.cy)} :
             /\ stroke'.particle = selected
             /\ stroke'.cx \in 0..SIMULATION_WIDTH
             /\ stroke'.cy \in 0..SIMULATION_HEIGHT
             /\ ~panicked'
             /\ Len(data'[img]) = DataLen
             /\ \A i \in 0..(DataLen - 1) :
                   ByteAt(data'[img], i) =
                     IF i \in sq THEN ColorByte(selected)
                                 ELSE ByteAt(data[img], i)
             /\ \A h \in Images \ {img} : data'[h] = data[h]]_vars

\* C1 witness: a stroke centred on the edge value (cx = SIMULATION_WIDTH) has
\* overwritten a bedrock floor cell with Sand and left its neighbour alone.
C1_Witness ==
    /\ stroke.kind = "brush"
    /\ stroke.cx = SIMULATION_WIDTH
    /\ stroke.cy = 0
    /\ stroke.particle = "Sand"
    /\ CellByte(data[stroke.image], <<SIMULATION_WIDTH - 1, 0>>) = ColorByte("Sand")
    /\ CellByte(data[stroke.image], <<0, 0>>) = ColorByte("Bedrock")

\* C2 as stated: a paint leaves the data of the image in the write role
\* unchanged.
C2_PaintLeavesWriteRole ==
    [][PaintStep => data'[write] = data[write]]_vars

\* C2 amended: a paint changes no image but the one in the write role; the
\* image in the read role is the same before and after paint_on_texture.
C2_PaintLeavesReadRole ==
    [][PaintStep =>
         /\ data'[read] = data[read]
         /\ \A h \in Images : h # write => data'[h] = data[h]]_vars

\* C2 witness: this frame's paint has changed the image in the write role
\* while the image in the read role still holds the setup data.
C2_Witness ==
    /\ stroke.kind = "brush"
    /\ "ping_pong" \notin done
    /\ stroke.image = write
    /\ data[write] # InitialImageData
    /\ data[read] = InitialImageData

\* C3: within a frame ping_pong runs only after paint_on_texture has run, and
\* paint_on_texture runs with the roles as they were at the start of the
\* frame (no swap of this frame precedes it).
C3_PaintBeforeTick ==
    /\ "ping_pong" \in done => "paint_on_texture" \in done
    /\ "paint_on_texture" \notin done => swaps = frame

\* C3 witness: a frame in which the brush was applied and then the roles were
\* swapped, with switch_particle_type still to run.
C3_Witness ==
    /\ done = {"paint_on_texture", "ping_pong"}
    /\ stroke.kind = "brush"
    /\ stroke.image = read

\* C4: exactly one swap per frame: at every frame boundary the number of
\* swaps equals the number of frames, and within a frame it is one more
\* exactly when this frame's ping_pong has run.
C4_OneTickPerFrame ==
    swaps = frame + (IF "ping_pong" \in done THEN 1 ELSE 0)

\* C4 witness: two frames have completed in which paint returned early every
\* time (no brush was ever applied), and two swaps have happened.
C4_Witness ==
    /\ frame = 2
    /\ done = {}
    /\ strokes = 0
    /\ text = "Cursor outside window"
    /\ swaps = 2

\* C5: the read and write roles are always held by two distinct images, and
\* together they are exactly the two images created by setup.
C5_RolesDistinct ==
    /\ read # write
    /\ {read, write} = Images

\* C5 witness: after a swap the roles are exchanged with respect to setup.
C5_Witness ==
    /\ swaps = 1
    /\ read = "B"
    /\ write = "A"

\* C6: a ping_pong that follows an earlier ping_pong with no brush applied in
\* between restores the roles and the data that preceded the earlier one.
C6_DoubleSwapRestores ==
    [][(PingPongStep /\ prevRoles # NoRoles /\ stroke.kind = "none") =>
         /\ read' = prevRoles[1]
         /\ write' = prevRoles[2]
         /\ data' = prevData]_vars

\* C6 witness: the second of two swaps with no brush applied between them has
\* run, on images that differ from each other.
C6_Witness ==
    /\ swaps = 2
    /\ "ping_pong" \in done
    /\ stroke.kind = "none"
    /\ strokes = 1
    /\ data["A"] # data["B"]
    /\ <<read, write>> = <<"A", "B">>

\* C7: a cell that setup made bedrock and that no stroke has covered is
\* bedrock in the image in the read role, in every state.
C7_BedrockStays ==
    \A c \in FloorCells :
        c \notin painted => CellByte(data[read], c) = ColorByte("Bedrock")

\* C7 witness: after two ticks an unpainted floor cell sits next to a floor
\* cell that a stroke has turned into Sand in the image in the read role.
C7_Witness ==
    /\ swaps = 2
    /\ <<0, 0>> \notin painted
    /\ <<1, 0>> \in painted
    /\ CellByte(data[read], <<1, 0>>) = ColorByte("Sand")
    /\ CellByte(data[read], <<0, 0>>) = ColorByte("Bedrock")

\* C8 as stated: across a tick, a Sand cell that is the only Sand cell of the
\* current grid (the image in the read role) and has only Air between it and
\* the bedrock floor, and at least one such Air cell, is one row lower in the
\* current grid afterwards, and the cell it left is Air.
C8_SandFallsOneRow ==
    [][PingPongStep =>
         \A c \in Cells :
            ( /\ c[2] > FLOOR_HEIGHT
              /\ CellByte(data[read], c) = ColorByte("Sand")
              /\ \A o \in Cells \ {c} : CellByte(data[read], o) # ColorByte("Sand")
              /\ \A y \in FLOOR_HEIGHT..(c[2] - 1) :
                    CellByte(data[read], <<c[1], y>>) = ColorByte("Air")
              /\ \A y \in 0..(FLOOR_HEIGHT - 1) :
                    CellByte(data[read], <<c[1], y>>) = ColorByte("Bedrock") )
            => /\ CellByte(data'[read'], <<c[1], c[2] - 1>>) = ColorByte("Sand")
               /\ CellByte(data'[read'], c) = ColorByte("Air")]_vars

\* C9 as stated: across the tick of a frame in which the brush was not
\* applied, the number of non-Air cells of the current grid (the image in
\* the read role) is the same before and after.
C9_NonAirCountKept ==
    [][(PingPongStep /\ stroke.kind = "none") =>
         NonAirCount(data'[read']) = NonAirCount(data[read])]_vars

\* C10 as stated: before any select key has been seen the selection is Sand,
\* so a brush applied then writes Sand to every cell it covers.
C10_DefaultPaintsSand ==
    (~selectEvent /\ stroke.kind = "brush") =>
        /\ stroke.particle = "Sand"
        /\ \A i \in SquareIndices(stroke.cx, stroke.cy) :
              ByteAt(data[stroke.image], i) = ColorByte("Sand")

\* The step taken is this frame's run of switch_particle_type.
SwitchStep ==
    "switch_particle_type" \notin done /\ "switch_particle_type" \in done'

\* The four bytes the particle types are stored as.
ParticleBytes == {ColorByte(p) : p \in Particle}

\* C11: after setup (before any brush is applied) every cell below the floor
\* height is Bedrock and every other cell is Air, in both images; the bytes
\* that are not a cell's first byte are 0 and the two images are identical.
C11_SetupFloor ==
    strokes = 0 =>
        /\ \A h \in Images :
              /\ Len(data[h]) = DataLen
              /\ \A c \in Cells :
                    CellByte(data[h], c) =
                      IF c[2] < FLOOR_HEIGHT THEN ColorByte("Bedrock")
                                             ELSE ColorByte("Air")
              /\ \A i \in 0..(DataLen - 1) :
                    i % BytesPerPixel # 0 => ByteAt(data[h], i) = 0
        /\ data["A"] = data["B"]

\* C11 witness: the state setup leaves, with a Bedrock cell in the top floor
\* row of image A and an Air cell right above the floor in image B.
C11_Witness ==
    /\ frame = 0
    /\ done = {}
    /\ swaps = 0
    /\ strokes = 0
    /\ CellByte(data["A"], <<SIMULATION_WIDTH - 1, FLOOR_HEIGHT - 1>>) = 25
    /\ CellByte(data["B"], <<0, FLOOR_HEIGHT>>) = 0

\* C12: in every state the first byte of every cell of both images is one of
\* the four particle bytes, and these are the pairwise distinct values 0
\* (Air), 25 (Bedrock), 127 (Sand) and 255 (Water).
C12_CellsAreParticles ==
    /\ ColorByte("Air") = 0
    /\ ColorByte("Bedrock") = 25
    /\ ColorByte("Sand") = 127
    /\ ColorByte("Water") = 255
    /\ Cardinality(ParticleBytes) = Cardinality(Particle)
    /\ \A h \in Images : \A c \in Cells : CellByte(data[h], c) \in ParticleBytes

\* C12 witness: after paints, selections and ticks the images hold Sand,
\* Water, Bedrock and Air cells.
C12_Witness ==
    /\ swaps = 2
    /\ \A p \in Particle :
          \E h \in Images : \E c \in Cells : CellByte(data[h], c) = ColorByte(p)

\* C13: applying the brush of this frame's paint a second time (same centre,
\* same radius, same particle, no tick and no other paint in between) to the
\* image it was applied to leaves that image as the first application left it.
C13_PaintIdempotent ==
    stroke.kind = "brush" =>
        \A written \in {BrushIndices(<<stroke.cx, stroke.cy>>)} :
            BrushedData(data[stroke.image], written, ColorByte(stroke.particle))
              = data[stroke.image]

\* C13 witness: this frame's paint wrote Sand over cells that held other
\* values (the image differs from what it was at the previous tick).
C13_Witness ==
    /\ stroke.kind = "brush"
    /\ stroke.particle = "Sand"
    /\ "ping_pong" \notin done
    /\ frame = 1
    /\ data[stroke.image] # prevData[stroke.image]

\* C14: switch_particle_type changes nothing but the selection: both images,
\* the roles, the presentation wiring and the debug text are the same before
\* and after it.
C14_SwitchOnlySelects ==
    [][SwitchStep =>
         /\ data' = data
         /\ read' = read /\ write' = write
         /\ source_image' = source_image
         /\ cam_target' = cam_target
         /\ sprite_image' = sprite_image
         /\ text' = text]_vars

\* C14 witness: the selection was changed after this frame's paint, and the
\* painted cells still hold the particle they were painted with.
C14_Witness ==
    /\ stroke.kind = "brush"
    /\ stroke.particle = "Sand"
    /\ "switch_particle_type" \in done
    /\ selected = "Water"
    /\ \E c \in Cells : CellByte(data[stroke.image], c) = ColorByte("Sand")
    /\ \A h \in Images : \A c \in Cells : CellByte(data[h], c) # ColorByte("Water")

\* The image that is not h.
OtherImage(h) == IF h = "A" THEN "B" ELSE "A"

\* The selection a run of switch_particle_type leaves: the particle of the
\* highest-numbered key just pressed, the current selection when none is.
HighestKeyParticle(keys, cur) ==
    IF "Digit3" \in keys THEN "Bedrock"
    ELSE IF "Digit2" \in keys THEN "Water"
    ELSE IF "Digit1" \in keys THEN "Sand"
    ELSE cur

\* C15 as stated, its last part: a cell painted in only one frame (with a
\* particle other than Air) differs between the two images afterwards.
C15_PaintedCellDiffers ==
    (strokes = 1 /\ stroke.kind = "brush" /\ stroke.particle # "Air") =>
        \A c \in painted : CellByte(data["A"], c) # CellByte(data["B"], c)

\* C15 amended: a paint changes only the image in the write role and leaves
\* the image in the read role unchanged; the paint of an even frame lands in
\* image B and that of an odd frame in image A; a cell painted in only one
\* frame holds the painted particle in the painted image and its earlier value
\* in the other image, so the images differ there exactly when the painted
\* particle is not what the cell held.
C15_PaintAlternatesImages ==
    [][/\ PaintStep =>
            /\ data'[read] = data[read]
            /\ \A h \in Images : data'[h] # data[h] => h = write
       /\ stroke'.kind = "brush" =>
            stroke'.image = (IF frame' % 2 = 0 THEN "B" ELSE "A")
       /\ (stroke'.kind = "brush" /\ strokes' = 1) =>
            \A c \in painted' :
                /\ CellByte(data'[stroke'.image], c) = ColorByte(stroke'.particle)
                /\ CellByte(data'[OtherImage(stroke'.image)], c)
                     = CellByte(InitialImageData, c)
                /\ (CellByte(data'["A"], c) # CellByte(data'["B"], c))
                     <=> (ColorByte(stroke'.particle) # CellByte(InitialImageData, c))
      ]_vars

\* C15 witness: the paint of frame 0 went to image B and the paint of frame 1
\* to image A, each leaving the other image as it was at the previous tick.
C15_Witness ==
    /\ frame = 1
    /\ strokes = 2
    /\ stroke.kind = "brush"
    /\ stroke.image = "A"
    /\ "ping_pong" \notin done
    /\ data["A"] # prevData["A"]
    /\ data["B"] = prevData["B"]
    /\ data["B"] # InitialImageData

\* C16: in every state (setup's and every one after a ping_pong) the
\* material's source image is the image in the read role, and the target of
\* the camera of order -1 and the image of the scaled sprite are the image in
\* the write role.
C16_WiringFollowsRoles ==
    /\ source_image = read
    /\ cam_target = write
    /\ sprite_image = write

\* C16 witness: after one ping_pong the material reads image B and the camera
\* and the sprite use image A.
C16_Witness ==
    /\ swaps = 1
    /\ read = "B"
    /\ source_image = "B"
    /\ cam_target = "A"
    /\ sprite_image = "A"

\* C17: the particle a frame's paint writes does not depend on whether
\* paint_on_texture or switch_particle_type runs first. Run first,
\* switch_particle_type makes the paint write the selection the frame ends
\* with; so in every frame, once both have run, the painted particle is the
\* selection.
C17_PaintOrderIrrelevant ==
    (stroke.kind = "brush" /\ "switch_particle_type" \in done) =>
        stroke.particle = selected

\* C18: switch_particle_type leaves the particle of the highest-numbered key
\* just pressed (Digit3 Bedrock over Digit2 Water over Digit1 Sand) and the
\* selection it found when no key was just pressed; it never selects Air, so
\* once a key has been pressed the selection is Sand, Water or Bedrock.
C18_HighestKeyWins ==
    [][/\ SwitchStep =>
            /\ selected' \in {HighestKeyParticle(keys, selected) : keys \in SUBSET Keys}
            /\ selected' # selected => selected' \in {"Sand", "Water", "Bedrock"}
       /\ \A keys \in SUBSET Keys :
            SwitchedParticle(keys, selected) = HighestKeyParticle(keys, selected)
       /\ selectEvent' => selected' \in {"Sand", "Water", "Bedrock"}
      ]_vars

\* C18 witness: a key was pressed in frame 0 and, a frame later, after
\* switch_particle_type ran again, the selection is Bedrock.
C18_Witness ==
    /\ frame = 1
    /\ selectEvent
    /\ "switch_particle_type" \in done
    /\ selected = "Bedrock"

\* The bytes the brush loops are to write for centre (cx, cy) at the source's
\* constants: the first bytes of the cells of the image within brush distance.
SourceSquare(cx, cy) ==
    {(y * SourceWidth + x) * BytesPerPixel :
        x \in Max(0, cx - SourceBrushSize)..(IF cx + SourceBrushSize < SourceWidth
                                             THEN cx + SourceBrushSize
                                             ELSE SourceWidth - 1),
        y \in Max(0, cy - SourceBrushSize)..(IF cy + SourceBrushSize < SourceHeight
                                             THEN cy + SourceBrushSize
                                             ELSE SourceHeight - 1)}

\* C19: for every texture position with coordinates in 0..=256 and every
\* offset pair in -5..=5, a coordinate that is negative as an i32 becomes a
\* u32 of 2^32 plus its value, which is at least 256, and the pair is
\* rejected by the bounds test; for every pair that passes, the byte index is
\* computed without u32 overflow and is below 256 * 256 * 4, so the loops
\* write exactly the first bytes of the in-grid cells of the square and never
\* panic.
C19_BrushStaysInBuffer ==
    probe.pc = "looped" =>
        /\ \A o \in SourceOffsets :
              /\ probe.cx + o[1] < 0 =>
                    /\ AsU32(probe.cx + o[1]) = <<Half - 1, Half + probe.cx + o[1]>>
                    /\ o \in probe.rejected
              /\ probe.cy + o[2] < 0 =>
                    /\ AsU32(probe.cy + o[2]) = <<Half - 1, Half + probe.cy + o[2]>>
                    /\ o \in probe.rejected
        /\ \A i \in probe.written : i >= 0 /\ i < SourceDataLen
        /\ probe.written = SourceSquare(probe.cx, probe.cy)
        /\ ~probe.panics

\* C19 witness: the loops have run for the texture position (0, 256): some
\* offsets gave a negative column, some a row of 256 or more, and the last
\* cell of the top row of the image was written.
C19_Witness ==
    /\ probe.pc = "looped"
    /\ probe.cx = 0
    /\ probe.cy = SourceHeight
    /\ <<-1, -1>> \in probe.rejected
    /\ <<0, 0>> \in probe.rejected
    /\ ((SourceHeight - 1) * SourceWidth) * BytesPerPixel \in probe.written

=============================================================================
